---------------------------- MODULE Spec2Model ----------------------------
(* A model of rename_nhd.py: the field extractor (extract_utf16_string and *)
(* the two struct.unpack reads), the rename planner (rename_nhd_file) and  *)
(* the command line driver (main) running over one directory.              *)
(*                                                                         *)
(* Text is a sequence of code points (naturals), a byte buffer a sequence  *)
(* of naturals below 256, an unsigned 32-bit integer a pair of 16-bit      *)
(* halves [lo, hi] so that the whole range 0 .. 2^32-1 is represented.     *)
(* The directory is a function from entry names to files; a file is its    *)
(* identity (ino) and its content (an index into Blobs).                   *)
EXTENDS Integers, Sequences, FiniteSets, TLC

VARIABLES
    fs,             \* the directory: name -> [ino, blob]
    pc,             \* main: "idle", "loop" (inside the for loop), "done"
    mode,           \* which branch of main ran: "none", "file", "dir", "invalid"
    dry_run,        \* args.dry_run of the current run
    nhd_files,      \* main's list, fixed when the directory is listed
    idx,            \* position of the for loop in nhd_files (1-based)
    success_count,  \* main's counter
    out,            \* standard output of the current run, a sequence of lines
    fs0,            \* history: the directory when the current run started
    settled,        \* history: the previous run was a completed normal-mode directory run
    runs,           \* the number of runs of the program that have ended
    text,           \* record check: the text written into the name field
    town,           \* record check: the town identifier written at 0x38
    player,         \* record check: the player identifier written at 0x54
    data,           \* rename_nhd_file: the bytes read
    rpc,            \* record check: position inside rename_nhd_file
    pattern_name,   \* rename_nhd_file locals
    town_id,
    player_id,
    base_name,
    valid_name

mainVars == <<fs, pc, mode, dry_run, nhd_files, idx, success_count, out, fs0, settled, runs>>
recVars == <<text, town, player, data, rpc, pattern_name, town_id, player_id, base_name, valid_name>>
vars == <<fs, pc, mode, dry_run, nhd_files, idx, success_count, out, fs0, settled, runs,
          text, town, player, data, rpc, pattern_name, town_id, player_id, base_name, valid_name>>

---------------------------------------------------------------------------
(* Bounds *)

\* largest number of entries in the initial directory
MaxFiles == 3

\* number of runs of the program, one after the other, on the directory
MaxRuns == 2

\* longest freely chosen text of the record check (longer texts are padded)
MaxFree == 2

---------------------------------------------------------------------------
(* The fixed layout: rename_nhd_file's offsets *)

NameOffset == 16

NameMaxLength == 40

TownOffset == 56

TownEnd == 60

PlayerOffset == 84

PlayerEnd == 88

\* the characters removed from the file name: \ / : * ? " < > |
Forbidden == {92, 47, 58, 42, 63, 34, 60, 62, 124}

\* the characters str.strip() removes (str.isspace)
Whitespace == {9, 10, 11, 12, 13, 28, 29, 30, 31, 32, 133, 160, 5760}
              \cup (8192 .. 8202) \cup {8232, 8233, 8239, 8287, 12288}

\* ".nhd", the suffix main selects on
NhdSuffix == <<46, 110, 104, 100>>

---------------------------------------------------------------------------
(* Python's sequence operations *)

Min(a, b) == IF a <= b THEN a ELSE b

\* s[a:b] with 0 <= a <= b: clamped to the buffer, never an error
Slice(s, a, b) == SubSeq(s, a + 1, Min(b, Len(s)))

\* a wrong UnpackH: the two bytes read in big-endian order
UnpackHBigEndian(b) == 256 * b[1] + b[2]

\* struct.unpack('<H', b)[0] on two bytes
UnpackH(b) == b[1] + 256 * b[2]

\* a wrong UnpackI: a short buffer is read as if padded with zero bytes
UnpackIPadded(b) ==
    LET at(i) == IF i <= Len(b) THEN b[i] ELSE 0
    IN  [ok |-> TRUE, lo |-> at(1) + 256 * at(2), hi |-> at(3) + 256 * at(4)]

\* struct.unpack('<I', b)[0]: struct.error unless b holds exactly four bytes
UnpackI(b) ==
    IF Len(b) # 4
    THEN [ok |-> FALSE, lo |-> 0, hi |-> 0]
    ELSE [ok |-> TRUE, lo |-> b[1] + 256 * b[2], hi |-> b[3] + 256 * b[4]]

RECURSIVE LStrip(_)
LStrip(s) ==
    IF s = <<>> \/ s[1] \notin Whitespace THEN s ELSE LStrip(Tail(s))

RECURSIVE RStrip(_)
RStrip(s) ==
    IF s = <<>> \/ s[Len(s)] \notin Whitespace THEN s ELSE RStrip(SubSeq(s, 1, Len(s) - 1))

\* str.strip()
Strip(s) == RStrip(LStrip(s))

\* the for loop of extract_utf16_string from position i on
RECURSIVE ExtractLoop(_, _, _, _, _)
ExtractLoop(bytes, offset, max_length, i, result) ==
    IF i >= max_length THEN result
    ELSE IF offset + i + 1 >= Len(bytes) THEN result
    ELSE LET char_code == UnpackH(Slice(bytes, offset + i, offset + i + 2))
         IN  IF char_code = 0 THEN result
             ELSE ExtractLoop(bytes, offset, max_length, i + 2, Append(result, char_code))

extract_utf16_string(bytes, offset, max_length) ==
    Strip(ExtractLoop(bytes, offset, max_length, 0, <<>>))

\* the decimal digits of an unsigned 32-bit value, as the f-string writes them
RECURSIVE FormatInt(_)
FormatInt(v) ==
    IF v.hi = 0 /\ v.lo < 10 THEN <<48 + v.lo>>
    ELSE LET t == (v.hi % 10) * 65536 + v.lo
         IN  FormatInt([lo |-> t \div 10, hi |-> v.hi \div 10]) \o <<48 + (t % 10)>>

\* f"{town_id}-{player_id}_{pattern_name}"
BaseName(t, p, name) == FormatInt(t) \o <<45>> \o FormatInt(p) \o <<95>> \o name

\* a wrong Sanitize: a forbidden character is replaced by "_", not dropped
SanitizeReplace(s) == [i \in 1 .. Len(s) |-> IF s[i] \in Forbidden THEN 95 ELSE s[i]]

\* "".join(c for c in base_name if c not in '\\/:*?"<>|')
Sanitize(s) == SelectSeq(s, LAMBDA c : c \notin Forbidden)

\* str.lower() on the characters a name can match ".nhd" with
Lower(s) == [i \in 1 .. Len(s) |-> IF s[i] \in 65 .. 90 THEN s[i] + 32 ELSE s[i]]

\* a wrong EndsWithNhd: the suffix compared without lower()
EndsWithNhdExact(name) ==
    /\ Len(name) >= Len(NhdSuffix)
    /\ SubSeq(name, Len(name) - Len(NhdSuffix) + 1, Len(name)) = NhdSuffix

\* f.lower().endswith('.nhd')
EndsWithNhd(name) ==
    /\ Len(name) >= Len(NhdSuffix)
    /\ SubSeq(Lower(name), Len(name) - Len(NhdSuffix) + 1, Len(name)) = NhdSuffix

\* os.path.splitext(file_path)[1] of an entry name: from the last dot on,
\* unless only dots precede it
SplitExt(name) ==
    LET dots == {i \in 1 .. Len(name) : name[i] = 46}
    IN  IF dots = {} THEN <<>>
        ELSE LET d == CHOOSE i \in dots : \A j \in dots : j <= i
             IN  IF \E j \in 1 .. d - 1 : name[j] # 46
                 THEN SubSeq(name, d, Len(name))
                 ELSE <<>>

---------------------------------------------------------------------------
(* Record files: the byte buffers the program is run on *)

\* the byte at 0-based position p of a record holding txt at 0x10 (UTF-16LE),
\* t at 0x38 and q at 0x54 (little-endian), zero elsewhere
RecordByte(p, txt, t, q) ==
    IF p >= NameOffset /\ p < NameOffset + 2 * Len(txt)
    THEN LET unit == txt[((p - NameOffset) \div 2) + 1]
         IN  IF (p - NameOffset) % 2 = 0 THEN unit % 256 ELSE unit \div 256
    ELSE IF p >= TownOffset /\ p < TownEnd
    THEN LET k == p - TownOffset
         IN  IF k = 0 THEN t.lo % 256 ELSE IF k = 1 THEN t.lo \div 256
             ELSE IF k = 2 THEN t.hi % 256 ELSE t.hi \div 256
    ELSE IF p >= PlayerOffset /\ p < PlayerEnd
    THEN LET k == p - PlayerOffset
         IN  IF k = 0 THEN q.lo % 256 ELSE IF k = 1 THEN q.lo \div 256
             ELSE IF k = 2 THEN q.hi % 256 ELSE q.hi \div 256
    ELSE 0

\* the first length bytes of that record
Record(txt, t, q, length) == [p \in 1 .. length |-> RecordByte(p - 1, txt, t, q)]

U32(lo, hi) == [lo |-> lo, hi |-> hi]

\* the file contents of the directory runs:
\*   1  town 1, player 5, "Ivy", 0x60 bytes
\*   2  town 1, player 5, " I/vy?", exactly 0x58 bytes (same file name as 1)
\*   3  record 1 cut to 0x57 bytes (too short for the player identifier)
\*   4  town 4294967295, player 65536, empty name, 0x60 bytes
Blobs == <<
    Record(<<73, 118, 121>>, U32(1, 0), U32(5, 0), 96),
    Record(<<32, 73, 47, 118, 121, 63>>, U32(1, 0), U32(5, 0), 88),
    Record(<<73, 118, 121>>, U32(1, 0), U32(5, 0), 87),
    Record(<<>>, U32(65535, 65535), U32(0, 1), 96) >>

---------------------------------------------------------------------------
(* rename_nhd_file *)

\* one line of standard output
Line(kind, old, new, s, t) == [kind |-> kind, old |-> old, new |-> new, s |-> s, t |-> t]

\* os.path.exists(os.path.join(directory, name))
Exists(f, name) == name \in DOMAIN f

\* open(file_path, 'rb').read()
ReadBytes(f, name) == Blobs[f[name].blob]

\* os.rename(file_path, new_filepath): an existing target is replaced
OsRename(f, old, new) ==
    [n \in (DOMAIN f \ {old}) \cup {new} |-> IF n = new THEN f[old] ELSE f[n]]

\* a wrong CollisionLoop: the suffix is written after the counter is incremented
RECURSIVE CollisionLoopFromTwo(_, _, _, _, _)
CollisionLoopFromTwo(f, valid, ext, counter, new_filepath) ==
    IF Exists(f, new_filepath)
    THEN CollisionLoopFromTwo(f, valid, ext, counter + 1,
                              valid \o <<95>> \o FormatInt([lo |-> counter + 1, hi |-> 0]) \o ext)
    ELSE new_filepath

\* a wrong CollisionLoop: "if" for "while", the suffixed name is not checked again
CollisionLoopOnce(f, valid, ext, counter, new_filepath) ==
    IF Exists(f, new_filepath)
    THEN valid \o <<95>> \o FormatInt([lo |-> counter, hi |-> 0]) \o ext
    ELSE new_filepath

\* the while loop resolving a taken name
RECURSIVE CollisionLoop(_, _, _, _, _)
CollisionLoop(f, valid, ext, counter, new_filepath) ==
    IF Exists(f, new_filepath)
    THEN CollisionLoop(f, valid, ext, counter + 1,
                       valid \o <<95>> \o FormatInt([lo |-> counter, hi |-> 0]) \o ext)
    ELSE new_filepath

\* the file name computed from a file's bytes: [ok, name]
PlanName(bytes) ==
    LET name == extract_utf16_string(bytes, NameOffset, NameMaxLength)
        t == UnpackI(Slice(bytes, TownOffset, TownEnd))
        p == UnpackI(Slice(bytes, PlayerOffset, PlayerEnd))
    IN  IF t.ok /\ p.ok
        THEN [ok |-> TRUE, name |-> Sanitize(BaseName(t, p, name))]
        ELSE [ok |-> FALSE, name |-> <<>>]

\* a wrong rename_nhd_file: the dry_run flag is not looked at
rename_nhd_file_always(f, name, dry) ==
    IF ~Exists(f, name)
    THEN [ok |-> FALSE, fs |-> f, line |-> Line("Error", name, <<>>, 0, 0)]
    ELSE LET plan == PlanName(ReadBytes(f, name))
         IN  IF ~plan.ok
             THEN [ok |-> FALSE, fs |-> f, line |-> Line("Error", name, <<>>, 0, 0)]
             ELSE LET ext == SplitExt(name)
                      new_filepath == CollisionLoop(f, plan.name, ext, 1, plan.name \o ext)
                  IN  [ok |-> TRUE, fs |-> OsRename(f, name, new_filepath),
                       line |-> Line("Renamed", name, new_filepath, 0, 0)]

\* rename_nhd_file(file_path, dry_run) on directory f:
\* [ok: the returned value, fs: the directory afterwards, line: the line printed]
rename_nhd_file(f, name, dry) ==
    IF ~Exists(f, name)
    THEN [ok |-> FALSE, fs |-> f, line |-> Line("Error", name, <<>>, 0, 0)]
    ELSE LET plan == PlanName(ReadBytes(f, name))
         IN  IF ~plan.ok
             THEN [ok |-> FALSE, fs |-> f, line |-> Line("Error", name, <<>>, 0, 0)]
             ELSE LET ext == SplitExt(name)
                      new_filepath == CollisionLoop(f, plan.name, ext, 1, plan.name \o ext)
                  IN  IF dry
                      THEN [ok |-> TRUE, fs |-> f,
                            line |-> Line("Would rename", name, new_filepath, 0, 0)]
                      ELSE [ok |-> TRUE, fs |-> OsRename(f, name, new_filepath),
                            line |-> Line("Renamed", name, new_filepath, 0, 0)]

---------------------------------------------------------------------------
(* main over one directory *)

\* 1-5_Ivy, the file name records 1 and 2 compute
IvyName == PlanName(Blobs[1]).name

\* the entries an initial directory is drawn from, as <<name, blob>>:
\* a.nhd (whole or cut short), d.nhd, e.nhd, b.NHD, c.txt, and a file already
\* named 1-5_Ivy.nhd
InitEntries == <<
    << <<97>> \o NhdSuffix, 1 >>,
    << <<97>> \o NhdSuffix, 3 >>,
    << <<100>> \o NhdSuffix, 2 >>,
    << <<101>> \o NhdSuffix, 1 >>,
    << <<98, 46, 78, 72, 68>>, 4 >>,
    << <<99, 46, 116, 120, 116>>, 1 >>,
    << IvyName \o NhdSuffix, 1 >> >>

\* the directory holding the entries T, each file numbered by its entry
DirOf(T) ==
    [n \in {InitEntries[i][1] : i \in T} |->
        LET i == CHOOSE j \in T : InitEntries[j][1] = n
        IN  [ino |-> i, blob |-> InitEntries[i][2]]]

InitDirs ==
    { DirOf(T) : T \in { U \in SUBSET DOMAIN InitEntries :
                           /\ Cardinality(U) <= MaxFiles
                           /\ \A i, j \in U : i # j => InitEntries[i][1] # InitEntries[j][1] } }

\* the path arguments that name no .nhd file: c.txt, and a.nhd when absent
OtherPaths == {<<99, 46, 116, 120, 116>>, <<97>> \o NhdSuffix}

\* the orders os.listdir may return the selected entries in
Listings(S) ==
    { s \in [1 .. Cardinality(S) -> S] : \A i, j \in DOMAIN s : i # j => s[i] # s[j] }

Banner(dry) == IF dry THEN <<Line("Dry run", <<>>, <<>>, 0, 0)>> ELSE <<>>

RecIdle ==
    /\ text = <<>> /\ town = U32(0, 0) /\ player = U32(0, 0) /\ data = <<>>
    /\ rpc = "off" /\ pattern_name = <<>> /\ town_id = U32(0, 0)
    /\ player_id = U32(0, 0) /\ base_name = <<>> /\ valid_name = <<>>

Init ==
    /\ fs \in InitDirs
    /\ pc = "idle" /\ mode = "none" /\ dry_run = FALSE
    /\ nhd_files = <<>> /\ idx = 1 /\ success_count = 0 /\ out = <<>>
    /\ fs0 = fs /\ settled = FALSE /\ runs = 0
    /\ RecIdle

\* main, path an existing file whose name ends in .nhd
MainFile(name, dry) ==
    /\ pc = "idle"
    /\ Exists(fs, name) /\ EndsWithNhd(name)
    /\ LET r == rename_nhd_file(fs, name, dry)
       IN  /\ fs' = r.fs
           /\ out' = Banner(dry) \o <<r.line>>
    /\ pc' = "done" /\ mode' = "file" /\ dry_run' = dry
    /\ fs0' = fs
    /\ UNCHANGED <<nhd_files, idx, success_count, settled, runs>>
    /\ UNCHANGED recVars

\* main, path the directory: list it; no .nhd entry ends the run
MainDir(dry) ==
    /\ pc = "idle"
    /\ \E listing \in Listings({n \in DOMAIN fs : EndsWithNhd(n)}) :
          /\ nhd_files' = listing
          /\ IF listing = <<>>
             THEN /\ out' = Banner(dry) \o <<Line("No NHD files found", <<>>, <<>>, 0, 0)>>
                  /\ pc' = "done"
             ELSE /\ out' = Banner(dry)
                  /\ pc' = "loop"
    /\ idx' = 1 /\ success_count' = 0
    /\ mode' = "dir" /\ dry_run' = dry
    /\ fs0' = fs
    /\ UNCHANGED <<fs, settled, runs>>
    /\ UNCHANGED recVars

\* a wrong LoopStep: names are resolved against the directory as it was listed
LoopStepStale ==
    /\ pc = "loop" /\ idx <= Len(nhd_files)
    /\ LET r == rename_nhd_file(fs0, nhd_files[idx], dry_run)
       IN  /\ fs' = IF r.ok /\ ~dry_run
                    THEN OsRename(fs, nhd_files[idx], r.line.new)
                    ELSE fs
           /\ out' = Append(out, r.line)
           /\ success_count' = IF r.ok THEN success_count + 1 ELSE success_count
    /\ idx' = idx + 1
    /\ UNCHANGED <<pc, mode, dry_run, nhd_files, fs0, settled, runs>>
    /\ UNCHANGED recVars

\* a wrong LoopStep: a failed file ends the loop
LoopStepAbort ==
    /\ pc = "loop" /\ idx <= Len(nhd_files)
    /\ LET r == rename_nhd_file(fs, nhd_files[idx], dry_run)
       IN  /\ fs' = r.fs
           /\ out' = Append(out, r.line)
           /\ success_count' = IF r.ok THEN success_count + 1 ELSE success_count
           /\ idx' = IF r.ok THEN idx + 1 ELSE Len(nhd_files) + 1
    /\ UNCHANGED <<pc, mode, dry_run, nhd_files, fs0, settled, runs>>
    /\ UNCHANGED recVars

\* one iteration of main's for loop
LoopStep ==
    /\ pc = "loop" /\ idx <= Len(nhd_files)
    /\ LET r == rename_nhd_file(fs, nhd_files[idx], dry_run)
       IN  /\ fs' = r.fs
           /\ out' = Append(out, r.line)
           /\ success_count' = IF r.ok THEN success_count + 1 ELSE success_count
    /\ idx' = idx + 1
    /\ UNCHANGED <<pc, mode, dry_run, nhd_files, fs0, settled, runs>>
    /\ UNCHANGED recVars

\* the end of the loop: the summary line
Summary ==
    /\ pc = "loop" /\ idx > Len(nhd_files)
    /\ out' = Append(out, Line("Processed", <<>>, <<>>, success_count, Len(nhd_files)))
    /\ pc' = "done"
    /\ UNCHANGED <<fs, mode, dry_run, nhd_files, idx, success_count, fs0, settled, runs>>
    /\ UNCHANGED recVars

\* main, path neither a .nhd file nor the directory
MainInvalid(name, dry) ==
    /\ pc = "idle"
    /\ ~(Exists(fs, name) /\ EndsWithNhd(name))
    /\ out' = Banner(dry) \o <<Line("Invalid path", name, <<>>, 0, 0)>>
    /\ pc' = "done" /\ mode' = "invalid" /\ dry_run' = dry
    /\ fs0' = fs
    /\ UNCHANGED <<fs, nhd_files, idx, success_count, settled, runs>>
    /\ UNCHANGED recVars

\* the process ends; the next run starts from a fresh process
Exit ==
    /\ pc = "done" /\ runs + 1 < MaxRuns
    /\ settled' = (mode = "dir" /\ ~dry_run /\ nhd_files # <<>>)
    /\ runs' = runs + 1
    /\ pc' = "idle" /\ mode' = "none" /\ dry_run' = FALSE
    /\ nhd_files' = <<>> /\ idx' = 1 /\ success_count' = 0 /\ out' = <<>>
    /\ fs0' = fs
    /\ UNCHANGED fs
    /\ UNCHANGED recVars

Next ==
    \/ \E name \in DOMAIN fs, dry \in BOOLEAN : MainFile(name, dry)
    \/ \E dry \in BOOLEAN : MainDir(dry)
    \/ LoopStep
    \/ Summary
    \/ \E name \in OtherPaths, dry \in BOOLEAN : MainInvalid(name, dry)
    \/ Exit

Spec == Init /\ [][Next]_vars

---------------------------------------------------------------------------
(* The record check: rename_nhd_file's decoding and naming, step by step, *)
(* on records built from a chosen text, town and player identifier        *)

\* code units: null, space, 'I', '/', U+3000 (ideographic space), U+4E2D
Units == {0, 32, 73, 47, 12288, 20013}

\* every text of at most MaxFree units
FreeTexts == UNION { [1 .. n -> Units] : n \in 0 .. MaxFree }

\* texts of 19 and 20 units: a first unit, 'v' repeated, a last unit
LongTexts ==
    { <<h>> \o [i \in 1 .. n |-> 118] \o <<t>> :
        h \in {32, 73}, t \in {32, 63}, n \in {17, 18} }

Ids == {U32(0, 0), U32(5, 0), U32(65535, 65535), U32(0, 1)}

\* buffer lengths: empty, cut inside the first and the second code unit,
\* cut inside the town and the player identifier, 0x58 and 0x60
Lengths == {0, 17, 19, 59, 87, 88, 96}

MainOff ==
    /\ fs = <<>> /\ pc = "off" /\ mode = "none" /\ dry_run = FALSE
    /\ nhd_files = <<>> /\ idx = 1 /\ success_count = 0 /\ out = <<>>
    /\ fs0 = <<>> /\ settled = FALSE /\ runs = 0

InitRecord ==
    /\ text \in FreeTexts \cup LongTexts
    /\ town \in Ids
    /\ player \in Ids
    /\ \E length \in Lengths : data = Record(text, town, player, length)
    /\ rpc = "read"
    /\ pattern_name = <<>> /\ town_id = U32(0, 0) /\ player_id = U32(0, 0)
    /\ base_name = <<>> /\ valid_name = <<>>
    /\ MainOff

\* pattern_name = extract_utf16_string(data, 0x10, 40)
DecodeName ==
    /\ rpc = "read"
    /\ pattern_name' = extract_utf16_string(data, NameOffset, NameMaxLength)
    /\ rpc' = "town"
    /\ UNCHANGED <<text, town, player, data, town_id, player_id, base_name, valid_name>>
    /\ UNCHANGED mainVars

\* town_id = struct.unpack('<I', data[0x38:0x3C])[0]
DecodeTown ==
    /\ rpc = "town"
    /\ LET t == UnpackI(Slice(data, TownOffset, TownEnd))
       IN  IF t.ok
           THEN town_id' = U32(t.lo, t.hi) /\ rpc' = "player"
           ELSE town_id' = town_id /\ rpc' = "failed"
    /\ UNCHANGED <<text, town, player, data, pattern_name, player_id, base_name, valid_name>>
    /\ UNCHANGED mainVars

\* player_id = struct.unpack('<I', data[0x54:0x58])[0]
DecodePlayer ==
    /\ rpc = "player"
    /\ LET p == UnpackI(Slice(data, PlayerOffset, PlayerEnd))
       IN  IF p.ok
           THEN player_id' = U32(p.lo, p.hi) /\ rpc' = "name"
           ELSE player_id' = player_id /\ rpc' = "failed"
    /\ UNCHANGED <<text, town, player, data, pattern_name, town_id, base_name, valid_name>>
    /\ UNCHANGED mainVars

\* base_name and valid_name
MakeName ==
    /\ rpc = "name"
    /\ base_name' = BaseName(town_id, player_id, pattern_name)
    /\ valid_name' = Sanitize(BaseName(town_id, player_id, pattern_name))
    /\ rpc' = "planned"
    /\ UNCHANGED <<text, town, player, data, pattern_name, town_id, player_id>>
    /\ UNCHANGED mainVars

NextRecord == DecodeName \/ DecodeTown \/ DecodePlayer \/ MakeName

SpecRecord == InitRecord /\ [][NextRecord]_vars

---------------------------------------------------------------------------
(* Vocabulary of the properties *)

\* the decimal digits of a natural number
RECURSIVE NatDigits(_)
NatDigits(n) == IF n < 10 THEN <<48 + n>> ELSE NatDigits(n \div 10) \o <<48 + (n % 10)>>

\* base, "_", k, extension
Suffixed(base, k, ext) == base \o <<95>> \o NatDigits(k) \o ext

\* the step is one call of rename_nhd_file: a loop iteration or a single-file run
Attempted ==
    \/ pc = "loop" /\ pc' = "loop" /\ idx' = idx + 1
    \/ pc = "idle" /\ pc' = "done" /\ mode' = "file"

\* the line that call printed, and the path it was given
LastLine == out'[Len(out')]
LastPath == out'[Len(out')].old

\* the lines printed per file, in order
FileLines == SelectSeq(out, LAMBDA l : l.kind \in {"Renamed", "Would rename", "Error"})

\* the name ends in .nhd, in any mix of upper and lower case
IsNhdName(n) ==
    /\ Len(n) >= 4
    /\ n[Len(n) - 3] = 46
    /\ n[Len(n) - 2] \in {110, 78}
    /\ n[Len(n) - 1] \in {104, 72}
    /\ n[Len(n)] \in {100, 68}

\* the files of a directory, whatever their names
Files(f) == {f[n] : n \in DOMAIN f}

---------------------------------------------------------------------------
(* C1: the target of rename_nhd_file is the sanitized base name plus the  *)
(* extension when that name is free, and otherwise base_k plus extension  *)
(* for the smallest k >= 1 whose name is free.                            *)
C1_TargetIsFirstFreeName ==
    [][ (Attempted /\ LastLine.kind \in {"Renamed", "Would rename"}) =>
          LET base == PlanName(ReadBytes(fs, LastPath)).name
              ext == SplitExt(LastPath)
              new == LastLine.new
          IN  IF base \o ext \notin DOMAIN fs
              THEN new = base \o ext
              ELSE \E k \in 1 .. Cardinality(DOMAIN fs) :
                      /\ new = Suffixed(base, k, ext)
                      /\ new \notin DOMAIN fs
                      /\ \A j \in 1 .. k - 1 : Suffixed(base, j, ext) \in DOMAIN fs ]_vars

\* a file was renamed to 1-5_Ivy_2.nhd: both 1-5_Ivy.nhd and 1-5_Ivy_1.nhd were taken
C1_Witness ==
    \E i \in DOMAIN out :
        /\ out[i].kind = "Renamed"
        /\ out[i].new = Suffixed(IvyName, 2, NhdSuffix)

---------------------------------------------------------------------------
(* C2: a normal-mode directory run over N files of one extension that all *)
(* decode to the same base name B, in a directory holding no B or B_k,    *)
(* leaves the first file processed at B and the i-th at B_(i-1).          *)
C2_SameNameBatch(f, files) ==
    LET base == PlanName(ReadBytes(f, files[1])).name
        ext == SplitExt(files[1])
    IN  /\ \A i \in DOMAIN files :
              /\ PlanName(ReadBytes(f, files[i])).ok
              /\ PlanName(ReadBytes(f, files[i])).name = base
              /\ SplitExt(files[i]) = ext
        /\ base \o ext \notin DOMAIN f
        /\ \A k \in 1 .. Len(files) : Suffixed(base, k, ext) \notin DOMAIN f

C2_BatchNamesInSequence ==
    (pc = "done" /\ mode = "dir" /\ ~dry_run /\ nhd_files # <<>>
        /\ C2_SameNameBatch(fs0, nhd_files)) =>
        LET base == PlanName(ReadBytes(fs0, nhd_files[1])).name
            ext == SplitExt(nhd_files[1])
            target(i) == IF i = 1 THEN base \o ext ELSE Suffixed(base, i - 1, ext)
        IN  /\ \A i \in DOMAIN nhd_files :
                  /\ target(i) \in DOMAIN fs
                  /\ fs[target(i)] = fs0[nhd_files[i]]
            /\ Cardinality({target(i) : i \in DOMAIN nhd_files}) = Len(nhd_files)
            /\ Cardinality(DOMAIN fs) = Cardinality(DOMAIN fs0)

\* such a run over three files has ended
C2_Witness ==
    /\ pc = "done" /\ mode = "dir" /\ ~dry_run
    /\ Len(nhd_files) = 3
    /\ C2_SameNameBatch(fs0, nhd_files)
    /\ \E i, j \in DOMAIN nhd_files : fs0[nhd_files[i]].blob # fs0[nhd_files[j]].blob

---------------------------------------------------------------------------
(* C3: a second normal-mode directory run after a first one leaves every  *)
(* file under the name the first run gave it.                             *)
C3_SecondRunKeepsNames ==
    (pc = "done" /\ mode = "dir" /\ ~dry_run /\ settled) => fs = fs0

---------------------------------------------------------------------------
(* C4: a dry run leaves the directory as it was, names and contents, and  *)
(* prints one "Would rename" line for every file processed successfully.  *)
C4_DryRunChangesNothing ==
    dry_run =>
        /\ fs = fs0
        /\ \A i \in DOMAIN out : out[i].kind # "Renamed"
        /\ mode = "dir" =>
              /\ Len(FileLines) = idx - 1
              /\ \A i \in 1 .. idx - 1 :
                    /\ FileLines[i].old = nhd_files[i]
                    /\ FileLines[i].kind = "Would rename"
                          <=> PlanName(ReadBytes(fs0, nhd_files[i])).ok
              /\ success_count =
                    Cardinality({i \in DOMAIN FileLines : FileLines[i].kind = "Would rename"})
        /\ mode = "file" =>
              /\ Len(FileLines) = 1
              /\ FileLines[1].kind = "Would rename"
                    <=> PlanName(ReadBytes(fs0, FileLines[1].old)).ok

\* a dry directory run has ended with two renames reported and one failure
C4_Witness ==
    /\ dry_run /\ pc = "done" /\ mode = "dir"
    /\ success_count = 2 /\ Len(nhd_files) = 3

---------------------------------------------------------------------------
(* C5: a file shorter than 0x58 bytes makes rename_nhd_file fail: one     *)
(* error line, no success counted, the directory unchanged.               *)
C5_ShortFileFails ==
    [][ (Attempted /\ Len(ReadBytes(fs, LastPath)) < 88) =>
          /\ LastLine.kind = "Error"
          /\ Len(out') = Len(IF pc = "loop" THEN out ELSE Banner(dry_run')) + 1
          /\ fs' = fs
          /\ success_count' = success_count ]_vars

\* a normal-mode run printed an error for a file of 0x57 bytes, still in place
C5_Witness ==
    /\ ~dry_run /\ pc = "done"
    /\ \E i \in DOMAIN out :
          /\ out[i].kind = "Error"
          /\ out[i].old \in DOMAIN fs
          /\ Len(ReadBytes(fs, out[i].old)) = 87

---------------------------------------------------------------------------
(* C6: a directory run attempts every listed entry exactly once, in list  *)
(* order, whatever happened to the entries before it; a failure is an     *)
(* error line and no success, the run goes on; an entry not yet reached   *)
(* is still the file that was listed.                                     *)
C6_EachEntryAttemptedOnce ==
    (mode = "dir" /\ pc \in {"loop", "done"}) =>
        /\ Len(FileLines) = idx - 1
        /\ \A i \in 1 .. idx - 1 :
              /\ FileLines[i].old = nhd_files[i]
              /\ FileLines[i].kind \in
                    (IF dry_run THEN {"Would rename", "Error"} ELSE {"Renamed", "Error"})
              /\ FileLines[i].kind = "Error" <=> ~PlanName(ReadBytes(fs0, nhd_files[i])).ok
        /\ success_count =
              Cardinality({i \in DOMAIN FileLines : FileLines[i].kind # "Error"})
        /\ \A i, j \in DOMAIN nhd_files : i # j => nhd_files[i] # nhd_files[j]
        /\ \A j \in idx .. Len(nhd_files) :
              /\ nhd_files[j] \in DOMAIN fs
              /\ fs[nhd_files[j]] = fs0[nhd_files[j]]
        /\ pc = "done" => idx = Len(nhd_files) + 1

\* a normal-mode run over three entries has ended: the second failed, the third was renamed
C6_Witness ==
    /\ pc = "done" /\ mode = "dir" /\ ~dry_run
    /\ Len(nhd_files) = 3 /\ Len(FileLines) = 3
    /\ FileLines[2].kind = "Error"
    /\ FileLines[3].kind = "Renamed"

---------------------------------------------------------------------------
(* C7: a directory run ends with the line "Processed <success> of <total> *)
(* NHD files", total the number of entries ending in .nhd in any case,    *)
(* success the number processed successfully; other entries are left      *)
(* alone.                                                                 *)
C7_CountsAndOthers ==
    LET total == Cardinality({n \in DOMAIN fs0 : IsNhdName(n)})
    IN  /\ \A i \in DOMAIN out : out[i].kind = "Processed" =>
              /\ i = Len(out)
              /\ out[i].t = total
              /\ out[i].s = Cardinality({j \in DOMAIN FileLines : FileLines[j].kind # "Error"})
              /\ out[i].s >= 0 /\ out[i].s <= out[i].t
        /\ {nhd_files[i] : i \in DOMAIN nhd_files} = {n \in DOMAIN fs0 : IsNhdName(n)}
        /\ \A n \in DOMAIN fs0 : ~IsNhdName(n) =>
              /\ n \in DOMAIN fs /\ fs[n] = fs0[n]
              /\ \A i \in DOMAIN FileLines : FileLines[i].old # n

\* as stated: every directory run ends with the summary line
C7_AlwaysSummary ==
    (pc = "done" /\ mode = "dir") =>
        /\ out # <<>>
        /\ out[Len(out)].kind = "Processed"
        /\ C7_CountsAndOthers

\* as amended: the summary line when at least one entry ends in .nhd,
\* otherwise the line "No NHD files found" and no summary
C7_SummaryUnlessNoFiles ==
    (pc = "done" /\ mode = "dir") =>
        /\ out # <<>>
        /\ IF {n \in DOMAIN fs0 : IsNhdName(n)} # {}
           THEN out[Len(out)].kind = "Processed"
           ELSE /\ out = Banner(dry_run) \o <<Line("No NHD files found", <<>>, <<>>, 0, 0)>>
                /\ fs = fs0
        /\ C7_CountsAndOthers

\* a run over a.nhd-like, b.NHD and c.txt has ended with fewer successes than entries
C7_Witness ==
    /\ pc = "done" /\ mode = "dir"
    /\ out[Len(out)].kind = "Processed"
    /\ out[Len(out)].s < out[Len(out)].t
    /\ \E n \in DOMAIN fs0 : ~IsNhdName(n)
    /\ \E n \in DOMAIN fs0 : IsNhdName(n) /\ n[Len(n)] = 68

---------------------------------------------------------------------------
(* C10: no rename replaces an existing file: the target is free at the    *)
(* moment of the rename, so every step keeps the number of entries and    *)
(* every file, each under exactly one name.                               *)
C10_NoFileLost ==
    [][ /\ (Attempted /\ LastLine.kind = "Renamed") =>
              /\ LastLine.new \notin DOMAIN fs
              /\ fs'[LastLine.new] = fs[LastPath]
        /\ Cardinality(DOMAIN fs') = Cardinality(DOMAIN fs)
        /\ Files(fs') = Files(fs)
        /\ Cardinality(Files(fs')) = Cardinality(DOMAIN fs') ]_vars

\* in a second run a file was renamed to a suffixed name while two others exist
C10_Witness ==
    /\ runs = 1 /\ pc = "done" /\ ~dry_run
    /\ Cardinality(DOMAIN fs) = 3
    /\ \E i \in DOMAIN out :
          /\ out[i].kind = "Renamed"
          /\ out[i].new = Suffixed(IvyName, 1, NhdSuffix)

---------------------------------------------------------------------------
(* C8: decoding the name field and trimming gives back the text written.  *)

\* a full record whose name field holds text: no null unit, at most 20 units
C8_ValidField ==
    /\ Len(data) >= 88
    /\ Len(text) <= 20
    /\ \A i \in DOMAIN text : text[i] # 0

\* p is t without its leading and trailing whitespace
IsTrimOf(p, t) ==
    \E i \in 0 .. Len(t) :
        LET j == Len(t) - Len(p) - i
        IN  /\ j >= 0
            /\ \A k \in 1 .. i : t[k] \in Whitespace
            /\ \A k \in Len(t) - j + 1 .. Len(t) : t[k] \in Whitespace
            /\ SubSeq(t, i + 1, i + Len(p)) = p
            /\ (p = <<>> \/ (p[1] \notin Whitespace /\ p[Len(p)] \notin Whitespace))

\* the little-endian 16-bit units of the buffer from 0x10 on, up to the first
\* zero unit, 20 units, or the last complete pair of the buffer
WindowUnits(d) ==
    LET avail == IF Len(d) <= 16 THEN 0 ELSE Min(20, (Len(d) - 16) \div 2)
        unit(k) == d[16 + 2 * k - 1] + 256 * d[16 + 2 * k]
        zeros == {k \in 1 .. avail : unit(k) = 0}
        stop == IF zeros = {} THEN avail
                ELSE (CHOOSE k \in zeros : \A z \in zeros : k <= z) - 1
    IN  [k \in 1 .. stop |-> unit(k)]

\* as stated: the decoded, trimmed name is the text exactly
C8_RoundTripExact ==
    (rpc # "read" /\ C8_ValidField) => pattern_name = text

\* as amended: it is the text without its leading and trailing whitespace,
\* so the text exactly when the text neither begins nor ends with whitespace;
\* on any buffer it is the trimmed units of the window
C8_RoundTripTrimmed ==
    rpc # "read" =>
        /\ C8_ValidField => IsTrimOf(pattern_name, text)
        /\ (C8_ValidField /\ text # <<>>
              /\ text[1] \notin Whitespace /\ text[Len(text)] \notin Whitespace)
              => pattern_name = text
        /\ IsTrimOf(pattern_name, WindowUnits(data))

\* a text of 20 units beginning with a space was decoded
C8_Witness ==
    /\ rpc # "read" /\ C8_ValidField
    /\ Len(text) = 20
    /\ pattern_name # text /\ Len(pattern_name) = 19

---------------------------------------------------------------------------
(* C9: the sanitized name is "{townId}-{playerId}_{patternName}" with     *)
(* every \ / : * ? " < > | deleted and every other character kept in      *)
(* order.                                                                 *)

\* the value of a string of decimal digits
RECURSIVE ParseDec(_)
ParseDec(d) ==
    IF d = <<>> THEN [lo |-> 0, hi |-> 0]
    ELSE LET a == ParseDec(SubSeq(d, 1, Len(d) - 1))
             t == a.lo * 10 + (d[Len(d)] - 48)
         IN  [lo |-> t % 65536, hi |-> a.hi * 10 + (t \div 65536)]

\* d is the decimal representation of v, without leading zeros
IsDecimalOf(d, v) ==
    /\ Len(d) >= 1
    /\ \A i \in DOMAIN d : d[i] \in 48 .. 57
    /\ Len(d) > 1 => d[1] # 48
    /\ ParseDec(d) = v

C9_SanitizedName ==
    rpc = "planned" =>
        LET kept == {i \in DOMAIN base_name : base_name[i] \notin Forbidden}
            rank(i) == Cardinality({j \in kept : j <= i})
        IN  /\ \E a, b \in DOMAIN base_name :
                  /\ a < b
                  /\ base_name[a] = 45 /\ base_name[b] = 95
                  /\ IsDecimalOf(SubSeq(base_name, 1, a - 1), town_id)
                  /\ IsDecimalOf(SubSeq(base_name, a + 1, b - 1), player_id)
                  /\ SubSeq(base_name, b + 1, Len(base_name)) = pattern_name
            /\ Len(valid_name) = Cardinality(kept)
            /\ \A i \in kept : valid_name[rank(i)] = base_name[i]
            /\ \A i \in DOMAIN valid_name :
                  valid_name[i] \notin {92, 47, 58, 42, 63, 34, 60, 62, 124}

\* a name with "/" in it and town 4294967295 was sanitized
C9_Witness ==
    /\ rpc = "planned"
    /\ town_id = [lo |-> 65535, hi |-> 65535]
    /\ \E i \in DOMAIN base_name : base_name[i] = 47
    /\ Len(valid_name) < Len(base_name)

===========================================================================
